---- MODULE Spec2Model ----
(***************************************************************************)
(* A model of the rock-quiz flashcard page (src/routes/+page.svelte): the  *)
(* practice-deck sampler, the draw pile, the filter selection and the      *)
(* asynchronous startup; of the two dataset scripts, the folder filter and *)
(* the manifest writer; and of the modal dialog (src/lib/Modal.svelte).    *)
(* Arrays are sequences; JavaScript's 0-based indices are kept in the      *)
(* loops and shifted by one at each access.                                *)
(* Math.random() is a nondeterministic choice, so a function that uses it  *)
(* is modelled by the set of values it can return.                         *)
(***************************************************************************)
EXTENDS Integers, Sequences, FiniteSets, TLC

\* ------------------------------------------------------------------ bounds
\* sampleUpTo in isolation: longest input array, largest |n|.
MaxLen == 4
MaxN == 6
\* The page: images listed in a manifest.
MaxCards == 2
\* nextImage in isolation: images of the one class of the manifest.
MaxPile == 3
\* The folder filter: pieces of the names of a source tree's top-level entries.
MaxName == 4
\* The manifest writer: entries of a class directory.
MaxFiles == 3

\* ------------------------------------------------------- program constants
PER_CLASS == 5
ROCKS_PREFIX == "/rocks/"

\* JavaScript's null.
Null == [null |-> TRUE]

\* --------------------------------------------------------- array helpers
Min(a, b) == IF a < b THEN a ELSE b
Max(a, b) == IF a > b THEN a ELSE b

Range(s) == {s[i] : i \in 1..Len(s)}

\* Array.prototype.slice(start, end) on 0-based indices: a negative index
\* counts from the end, both are clamped to 0..length.
SliceIndex(len, i) == IF i < 0 THEN Max(len + i, 0) ELSE Min(i, len)

Slice(a, start, end) ==
    LET from == SliceIndex(Len(a), start)
        to   == SliceIndex(Len(a), end)
    IN  IF to <= from THEN <<>> ELSE SubSeq(a, from + 1, to)

\* A swap that overwrites a[i] and loses its old value.
SwapOverwrite(a, i, j) == [a EXCEPT ![i + 1] = a[j + 1]]

\* [a[i], a[j]] = [a[j], a[i]]  (i, j 0-based)
Swap(a, i, j) == [a EXCEPT ![i + 1] = a[j + 1], ![j + 1] = a[i + 1]]

\* Math.floor(Math.random() * m): Math.random() is in [0, 1).
RandomBelow(m) == 0..(m - 1)

\* ------------------------------------------------------------ sampleUpTo
\* for (let i = 0; i < k; i++) { j = i + floor(random * (a.length - i)); swap }
\* The runs of the loop from i on: the array they leave and the (i, j) of
\* their swaps.
RECURSIVE SampleRuns(_, _, _, _)
SampleRuns(a, i, k, swaps) ==
    IF ~(i < k) THEN { [a |-> a, swaps |-> swaps] }
    ELSE UNION { SampleRuns(Swap(a, i, i + f), i + 1, k,
                            Append(swaps, [i |-> i, j |-> i + f])) :
                 f \in RandomBelow(Len(a) - i) }

SampleLoop(a, i, k) == { r.a : r \in SampleRuns(a, i, k, <<>>) }

\* Sampling with replacement: k independent picks.
sampleUpToWithReplacement(arr, n) ==
    LET k == Max(Min(n, Len(arr)), 0)
    IN  [1..k -> Range(arr)]

\* One pick short: the loop and the slice stop at k - 1.
sampleUpToShort(arr, n) ==
    LET a == arr
        k == Max(Min(n, Len(a)) - 1, 0)
    IN  { Slice(b, 0, k) : b \in SampleLoop(a, 0, k) }

\* The values sampleUpTo(arr, n) can return.
sampleUpTo(arr, n) ==
    LET a == arr
        k == Min(n, Len(a))
    IN  { Slice(b, 0, k) : b \in SampleLoop(a, 0, k) }

\* The loop run on arr itself ("const a = arr"): the caller's array is swapped.
sampleUpToRunInPlace(arr, n) ==
    LET k == Min(n, Len(arr))
    IN  { [arr |-> b, ret |-> Slice(b, 0, k)] : b \in SampleLoop(arr, 0, k) }

\* A call of sampleUpTo(arr, n) with its effect on the caller's array: the
\* loop swaps in the copy made by arr.slice(), so arr is left as it was.
sampleUpToRun(arr, n) == { [arr |-> arr, ret |-> r] : r \in sampleUpTo(arr, n) }

\* ---------------------------------------------------------- shuffleInPlace
\* The loop with j = floor(random * i): position i is never left in place.
RECURSIVE ShuffleRunsSattolo(_, _, _)
ShuffleRunsSattolo(a, i, swaps) ==
    IF ~(i > 0) THEN { [a |-> a, swaps |-> swaps] }
    ELSE UNION { ShuffleRunsSattolo(Swap(a, i, j), i - 1, Append(swaps, [i |-> i, j |-> j])) :
                 j \in RandomBelow(i) }

\* for (let i = a.length - 1; i > 0; i--) { j = floor(random * (i + 1)); swap }
\* The runs of the loop from i on: the array they leave and the (i, j) of
\* their swaps.
RECURSIVE ShuffleRuns(_, _, _)
ShuffleRuns(a, i, swaps) ==
    IF ~(i > 0) THEN { [a |-> a, swaps |-> swaps] }
    ELSE UNION { ShuffleRuns(Swap(a, i, j), i - 1, Append(swaps, [i |-> i, j |-> j])) :
                 j \in RandomBelow(i + 1) }

ShuffleLoop(a, i) == { r.a : r \in ShuffleRuns(a, i, <<>>) }

\* The values shuffleInPlace(a) can leave in a (and return).
shuffleInPlace(a) == ShuffleLoop(a, Len(a) - 1)

\* ----------------------------------------------------------------- labels
\* Class names, listed in localeCompare order.
LabelUniverse == <<"basalt", "granite">>
Labels == {LabelUniverse[i] : i \in 1..Len(LabelUniverse)}

\* a.localeCompare(b) < 0
LocaleRank(l) == CHOOSE i \in 1..Len(LabelUniverse) : LabelUniverse[i] = l
LocaleBefore(a, b) == LocaleRank(a) < LocaleRank(b)

\* labels.sort((a, b) => a.localeCompare(b))
RECURSIVE SortLabels(_)
SortLabels(s) ==
    IF s = <<>> THEN <<>>
    ELSE LET x    == s[Len(s)]
             done == SortLabels(SubSeq(s, 1, Len(s) - 1))
             k    == Cardinality({i \in 1..Len(done) : ~LocaleBefore(x, done[i])})
         IN  SubSeq(done, 1, k) \o <<x>> \o SubSeq(done, k + 1, Len(done))

\* Object.keys(manifest).sort(localeCompare)
RECURSIVE SortedKeys(_)
SortedKeys(keys) ==
    IF keys = {} THEN <<>>
    ELSE LET first == CHOOSE k \in keys : \A o \in keys : ~LocaleBefore(o, k)
         IN  <<first>> \o SortedKeys(keys \ {first})

\* manifest[label] ?? []
ImagesOf(m, label) == IF label \in DOMAIN m THEN m[label] ELSE <<>>

\* The URL the manifest writer emits for file number f of class cls.
ImageURL(cls, f) == [prefix |-> ROCKS_PREFIX, cls |-> cls, file |-> f]

\* keyFromImageURL: the part of the URL after the last "/rocks/".
keyFromImageURL(u) == [cls |-> u.cls, file |-> u.file]

\* new URL(url).hostname.replace(/^www\./, "")
HostText(url) ==
    IF Len(url.host) > 0 /\ url.host[1] = "www"
    THEN [text |-> SubSeq(url.host, 2, Len(url.host))]
    ELSE [text |-> url.host]

\* ------------------------------------------------------------------ state
VARIABLES
    manifest,       \* label -> array of image URLs ({} until loaded)
    classes,        \* sorted labels of the manifest
    current,        \* Null or the card { url, label } on display
    revealed,
    deck,           \* the practice set
    drawPile,       \* shuffled copy of the deck; cards are popped from its end
    selectedList,   \* the filter widget's selection
    ready,
    creditsMap,     \* image key -> source URL
    creditURL,
    creditHost,
    pc,             \* where onMount's async function stands
    op,             \* the handler that ran last ("onMountCatch": onMount
                    \* through its catch block)
    drawn,          \* history: cards popped since the drawPile was last filled
    refillAfter,    \* history: -1, or, when the latest nextImage call refilled
                    \* the drawPile, the number of cards popped since the fill before
    labelsArg,      \* history: the labels array of the latest buildPracticeDeck
                    \* call as the call leaves it (sorted in place)
    arr, n, result, phase,  \* one call of sampleUpTo: arguments, return value
    SRC, DEST,      \* folder filter: the trees at the paths SRC and DEST
    itemsLeft,      \* folder filter: entries of SRC main's loop has yet to visit
    ROOT,           \* manifest writer: the listing of the dataset root
    todo,           \* manifest writer: sorted classes main's loop has yet to visit
    data,           \* manifest writer: class -> URLs
    OUT,            \* manifest writer: the manifest file, Null until written
    browser,        \* modal: $app/environment's browser (FALSE when rendered on the server)
    modal,          \* modal: the component's props, its script's variables and
                    \* where it stands in its life cycle
    overflow,       \* modal: document.documentElement.style.overflow
    dispatched,     \* history: the events the component dispatched in the latest step
    event           \* history: what the latest step of the modal handled

pageVars == <<manifest, classes, current, revealed, deck, drawPile, selectedList,
              ready, creditsMap, creditURL, creditHost, pc, op,
              drawn, refillAfter, labelsArg>>
sampleVars == <<arr, n, result, phase>>
scriptVars == <<SRC, DEST, itemsLeft, ROOT, todo, data, OUT>>
modalVars == <<browser, modal, overflow, dispatched, event>>
vars == <<pageVars, sampleVars, scriptVars, modalVars>>

\* The script variables as one record, so that a handler is a function from
\* a state to the set of states it can end in.
Page ==
    [manifest |-> manifest, classes |-> classes, current |-> current,
     revealed |-> revealed, deck |-> deck, drawPile |-> drawPile,
     selectedList |-> selectedList, ready |-> ready, creditsMap |-> creditsMap,
     creditURL |-> creditURL, creditHost |-> creditHost,
     drawn |-> drawn, refillAfter |-> refillAfter, labelsArg |-> labelsArg]

Becomes(t) ==
    /\ manifest' = t.manifest
    /\ classes' = t.classes
    /\ current' = t.current
    /\ revealed' = t.revealed
    /\ deck' = t.deck
    /\ drawPile' = t.drawPile
    /\ selectedList' = t.selectedList
    /\ ready' = t.ready
    /\ creditsMap' = t.creditsMap
    /\ creditURL' = t.creditURL
    /\ creditHost' = t.creditHost
    /\ drawn' = t.drawn
    /\ refillAfter' = t.refillAfter
    /\ labelsArg' = t.labelsArg

\* ------------------------------------------------------------- handlers
\* A deck of every image of every label: no sampling, no cap.
DeckPicksAll(m, sorted) ==
    LET Cards(picks, label) == [i \in 1..Len(picks) |-> [url |-> picks[i], label |-> label]]
        Tmp[i \in 1..(Len(sorted) + 1)] ==
            IF i > Len(sorted) THEN <<>>
            ELSE Cards(ImagesOf(m, sorted[i]), sorted[i]) \o Tmp[i + 1]
    IN  {Tmp[1]}

\* buildPracticeDeck's loop over sorted: the manifest as the calls of
\* sampleUpTo(manifest[label] ?? [], PER_CLASS) leave it, and tmp.
DeckRuns(m, sorted) ==
    LET Cards(picks, label) == [i \in 1..Len(picks) |-> [url |-> picks[i], label |-> label]]
        Put(mm, label, a) == IF label \in DOMAIN mm THEN [mm EXCEPT ![label] = a] ELSE mm
        Run[i \in 0..Len(sorted)] ==
            IF i = 0 THEN { [manifest |-> m, tmp |-> <<>>] }
            ELSE UNION { { [manifest |-> Put(r.manifest, sorted[i], c.arr),
                            tmp |-> r.tmp \o Cards(c.ret, sorted[i])] :
                           c \in sampleUpToRun(ImagesOf(r.manifest, sorted[i]), PER_CLASS) } :
                         r \in Run[i - 1] }
    IN  Run[Len(sorted)]

\* The values tmp can have at the end of buildPracticeDeck's loop over sorted.
DeckPicks(m, sorted) == { r.tmp : r \in DeckRuns(m, sorted) }

\* deck = tmp; drawPile = the shuffled copy; sorted is what labels.sort() left.
Built(s, sorted, tmp, pile) ==
    [s EXCEPT !.deck = tmp, !.drawPile = pile, !.drawn = <<>>,
              !.refillAfter = 0 - 1, !.labelsArg = sorted]

\* buildPracticeDeck(labels): the states it can leave.
buildPracticeDeck(s, labels) ==
    LET sorted == SortLabels(labels)
    IN  UNION { { Built([s EXCEPT !.manifest = r.manifest], sorted, r.tmp, pile) :
                  pile \in shuffleInPlace(r.tmp) } :
                r \in DeckRuns(s.manifest, sorted) }

\* buildPracticeDeck(): labels defaults to classes, which the sort reorders in place.
buildPracticeDeckDefault(s) ==
    { [t EXCEPT !.classes = SortLabels(s.classes)] : t \in buildPracticeDeck(s, s.classes) }

\* The filter ignored: every class with an image.
chosenLabelsAll(s) ==
    SortLabels(SelectSeq(s.classes, LAMBDA lbl : Len(ImagesOf(s.manifest, lbl)) > 0))

chosenLabels(s) ==
    LET from == IF Len(s.selectedList) > 0 THEN s.selectedList ELSE s.classes
    IN  SortLabels(SelectSeq(from, LAMBDA lbl : Len(ImagesOf(s.manifest, lbl)) > 0))

\* creditsMap.get(key) || null
CreditFor(s, url) ==
    LET key == keyFromImageURL(url)
    IN  IF key \in DOMAIN s.creditsMap THEN s.creditsMap[key] ELSE Null

\* A refill one card early: while a card is still in the drawPile.
RefillEarly(s) ==
    IF Len(s.drawPile) <= 1
    THEN { [s EXCEPT !.drawPile = pile, !.refillAfter = Len(s.drawn), !.drawn = <<>>] :
             pile \in shuffleInPlace(s.deck) }
    ELSE { [s EXCEPT !.refillAfter = 0 - 1] }

\* nextImage, lines 104-106: if (!drawPile.length) drawPile = shuffleInPlace(deck.slice())
Refill(s) ==
    IF Len(s.drawPile) = 0
    THEN { [s EXCEPT !.drawPile = pile, !.refillAfter = Len(s.drawn), !.drawn = <<>>] :
             pile \in shuffleInPlace(s.deck) }
    ELSE { [s EXCEPT !.refillAfter = 0 - 1] }

\* The card displayed without "revealed = false".
ShowKeepRevealed(s, card) ==
    LET url == CreditFor(s, card.url)
    IN  [s EXCEPT !.current = card,
                  !.creditURL = url,
                  !.creditHost = IF url # Null THEN HostText(url) ELSE Null]

\* The card and its credit looked up and displayed.
Show(s, card) ==
    LET url == CreditFor(s, card.url)
    IN  [s EXCEPT !.current = card,
                  !.revealed = FALSE,
                  !.creditURL = url,
                  !.creditHost = IF url # Null THEN HostText(url) ELSE Null]

\* Without "if (!card) return": current becomes the undefined that pop()
\* returned, revealed is reset, and reading current.url throws.
DrawUnguarded(s) ==
    IF Len(s.drawPile) = 0
    THEN [s EXCEPT !.current = [undefined |-> TRUE], !.revealed = FALSE]
    ELSE LET card == s.drawPile[Len(s.drawPile)]
         IN  [Show(s, card) EXCEPT !.drawPile = SubSeq(s.drawPile, 1, Len(s.drawPile) - 1),
                                   !.drawn = Append(s.drawn, card)]

\* shift() instead of pop(): the card is taken from the front of the drawPile.
DrawFirst(s) ==
    IF Len(s.drawPile) = 0 THEN s
    ELSE LET card == s.drawPile[1]
         IN  [Show(s, card) EXCEPT !.drawPile = SubSeq(s.drawPile, 2, Len(s.drawPile)),
                                   !.drawn = Append(s.drawn, card)]

\* nextImage, lines 107-116: card = drawPile.pop(); if (!card) return; ...
Draw(s) ==
    IF Len(s.drawPile) = 0 THEN s
    ELSE LET card == s.drawPile[Len(s.drawPile)]
         IN  [Show(s, card) EXCEPT !.drawPile = SubSeq(s.drawPile, 1, Len(s.drawPile) - 1),
                                   !.drawn = Append(s.drawn, card)]

nextImage(s) == { Draw(t) : t \in Refill(s) }

\* A reveal that flips the flag instead of setting it.
revealToggle(s) == { [s EXCEPT !.revealed = ~s.revealed] }

reveal(s) == { [s EXCEPT !.revealed = TRUE] }

\* The version without the filter: buildPracticeDeck() from every class.
reshuffleDeckAllClasses(s) ==
    UNION { nextImage([t EXCEPT !.current = Null, !.revealed = FALSE]) :
            t \in buildPracticeDeckDefault(s) }

reshuffleDeck(s) ==
    UNION { nextImage([t EXCEPT !.current = Null, !.revealed = FALSE]) :
            t \in buildPracticeDeck(s, chosenLabels(s)) }

\* The rebuild without its nextImage() call.
rebuildFromSelectionNoDraw(s) ==
    IF ~s.ready THEN {s}
    ELSE { [t EXCEPT !.current = Null, !.revealed = FALSE] :
           t \in buildPracticeDeck(s, chosenLabels(s)) }

\* The rebuild without "current = null".
rebuildFromSelectionKeepCurrent(s) ==
    IF ~s.ready THEN {s}
    ELSE UNION { nextImage([t EXCEPT !.revealed = FALSE]) :
                 t \in buildPracticeDeck(s, chosenLabels(s)) }

\* The rebuild without "revealed = false".
rebuildFromSelectionKeepRevealed(s) ==
    IF ~s.ready THEN {s}
    ELSE UNION { nextImage([t EXCEPT !.current = Null]) :
                 t \in buildPracticeDeck(s, chosenLabels(s)) }

rebuildFromSelection(s) ==
    IF ~s.ready THEN {s}
    ELSE UNION { nextImage([t EXCEPT !.current = Null, !.revealed = FALSE]) :
                 t \in buildPracticeDeck(s, chosenLabels(s)) }

\* value is what the widget bound to selectedList: an array or null.
onSelectionChange(s, value) ==
    rebuildFromSelection(
        [s EXCEPT !.selectedList = IF value.isArray THEN value.items ELSE <<>>])

\* onMount, from "ready = true" to its end.
FinishMount(s) ==
    UNION { nextImage(t) : t \in buildPracticeDeckDefault([s EXCEPT !.ready = TRUE]) }

\* items.forEach(({ file, url }) => creditsMap.set(file, url))
RECURSIVE SetCredits(_, _)
SetCredits(map, items) ==
    IF items = <<>> THEN map
    ELSE LET it   == items[1]
             keys == DOMAIN map \cup {it.file}
         IN  SetCredits([k \in keys |-> IF k = it.file THEN it.url ELSE map[k]],
                        SubSeq(items, 2, Len(items)))

\* ----------------------------------------------------------------- inputs
\* Image lists up to renaming of the files: file i is new or repeats an earlier one.
RECURSIVE Arrays(_)
Arrays(len) ==
    IF len = 0 THEN {<<>>}
    ELSE UNION { { Append(s, v) : v \in 1..(1 + Cardinality(Range(s))) } :
                 s \in Arrays(len - 1) }

ArraysUpTo(len) == UNION { Arrays(k) : k \in 0..len }

URLs(cls, files) == [i \in 1..Len(files) |-> ImageURL(cls, files[i])]

\* A manifest from the number lists of its classes.
ManifestOf(files) == [cls \in DOMAIN files |-> URLs(cls, files[cls])]

RECURSIVE Total(_, _)
Total(f, keys) ==
    IF keys = {} THEN 0
    ELSE LET k == CHOOSE x \in keys : TRUE IN f[k] + Total(f, keys \ {k})

Manifests ==
    { ManifestOf(files) :
        files \in { f \in UNION { [ks -> ArraysUpTo(MaxCards)] : ks \in SUBSET Labels } :
                      Total([k \in DOMAIN f |-> Len(f[k])], DOMAIN f) <= MaxCards } }

\* What one use of the multi-select can bind to selectedList: the selection
\* with one option added at its end, with one item removed, or cleared (to an
\* empty array or to null).
WidgetValues(options, selection) ==
    { [isArray |-> TRUE, items |-> Append(selection, x)] :
        x \in Range(options) \ Range(selection) }
    \cup { [isArray |-> TRUE, items |-> SelectSeq(selection, LAMBDA y : y # x)] :
             x \in Range(selection) }
    \cup { [isArray |-> TRUE, items |-> <<>>], [isArray |-> FALSE, items |-> <<>>] }

CreditURLs == { [host |-> <<"www", "mindat", "org">>] }

ImageKeys(m) ==
    UNION { { keyFromImageURL(m[cls][i]) : i \in 1..Len(m[cls]) } : cls \in DOMAIN m }

\* The contents credits.json can have: no record, or one { file, url } record
\* for an image of the manifest.
CreditFiles(m) ==
    {<<>>} \cup { <<[file |-> k, url |-> u]>> : k \in ImageKeys(m), u \in CreditURLs }

\* ------------------------------------------------------------------- Init
InitSampleIdle ==
    /\ arr = <<>>
    /\ n = 0
    /\ result = <<>>
    /\ phase = "idle"

\* The dataset scripts are not running.
InitScriptsIdle ==
    /\ SRC = <<>>
    /\ DEST = <<>>
    /\ itemsLeft = {}
    /\ ROOT = <<>>
    /\ todo = <<>>
    /\ data = <<>>
    /\ OUT = Null

\* No modal dialog exists.
InitModalIdle ==
    /\ browser = TRUE
    /\ modal = Null
    /\ overflow = ""
    /\ dispatched = <<>>
    /\ event = Null

\* The component is created and onMount has called fetch("/rocks-manifest.json").
Init ==
    /\ manifest = <<>>
    /\ classes = <<>>
    /\ current = Null
    /\ revealed = FALSE
    /\ deck = <<>>
    /\ drawPile = <<>>
    /\ selectedList = <<>>
    /\ ready = FALSE
    /\ creditsMap = <<>>
    /\ creditURL = Null
    /\ creditHost = Null
    /\ pc = "fetchManifest"
    /\ op = "init"
    /\ drawn = <<>>
    /\ refillAfter = 0 - 1
    /\ labelsArg = <<>>
    /\ InitSampleIdle
    /\ InitScriptsIdle
    /\ InitModalIdle

\* ---------------------------------------------------------------- onMount
Stay == UNCHANGED <<manifest, classes, current, revealed, deck, drawPile, selectedList,
                    ready, creditsMap, creditURL, creditHost, drawn, refillAfter, labelsArg>>

\* The rejection followed by "ready = true", as from a finally block.
ManifestFetchFailsReady ==
    /\ pc = "fetchManifest"
    /\ pc' = "failed"
    /\ op' = "onMount"
    /\ ready' = TRUE
    /\ UNCHANGED <<manifest, classes, current, revealed, deck, drawPile, selectedList,
                   creditsMap, creditURL, creditHost, drawn, refillAfter, labelsArg>>
    /\ UNCHANGED <<sampleVars, scriptVars, modalVars>>

\* await fetch("/rocks-manifest.json") rejects: onMount's promise rejects.
ManifestFetchFails ==
    /\ pc = "fetchManifest"
    /\ pc' = "failed"
    /\ op' = "onMount"
    /\ Stay
    /\ UNCHANGED <<sampleVars, scriptVars, modalVars>>

ManifestFetched ==
    /\ pc = "fetchManifest"
    /\ pc' = "manifestJson"
    /\ op' = "onMount"
    /\ Stay
    /\ UNCHANGED <<sampleVars, scriptVars, modalVars>>

\* await res.json() rejects.
ManifestJsonFails ==
    /\ pc = "manifestJson"
    /\ pc' = "failed"
    /\ op' = "onMount"
    /\ Stay
    /\ UNCHANGED <<sampleVars, scriptVars, modalVars>>

\* manifest = await res.json(); classes = sorted keys; fetch("/rocks/credits.json")
ManifestLoaded ==
    /\ pc = "manifestJson"
    /\ \E m \in Manifests :
         Becomes([Page EXCEPT !.manifest = m, !.classes = SortedKeys(DOMAIN m)])
    /\ pc' = "fetchCredits"
    /\ op' = "onMount"
    /\ UNCHANGED <<sampleVars, scriptVars, modalVars>>

\* The rejection not caught: onMount's promise rejects before "ready = true".
CreditsFetchFailsUncaught ==
    /\ pc = "fetchCredits"
    /\ pc' = "failed"
    /\ op' = "onMountCatch"
    /\ Stay
    /\ UNCHANGED <<sampleVars, scriptVars, modalVars>>

\* await fetch("/rocks/credits.json") rejects: caught, then ready/build/draw.
CreditsFetchFails ==
    /\ pc = "fetchCredits"
    /\ \E t \in FinishMount(Page) : Becomes(t)
    /\ pc' = "done"
    /\ op' = "onMountCatch"
    /\ UNCHANGED <<sampleVars, scriptVars, modalVars>>

CreditsFetched ==
    /\ pc = "fetchCredits"
    /\ pc' = "creditsJson"
    /\ op' = "onMount"
    /\ Stay
    /\ UNCHANGED <<sampleVars, scriptVars, modalVars>>

\* await c.json() rejects: caught, then ready/build/draw.
CreditsJsonFails ==
    /\ pc = "creditsJson"
    /\ \E t \in FinishMount(Page) : Becomes(t)
    /\ pc' = "done"
    /\ op' = "onMountCatch"
    /\ UNCHANGED <<sampleVars, scriptVars, modalVars>>

CreditsLoaded ==
    /\ pc = "creditsJson"
    /\ \E items \in CreditFiles(manifest) :
         \E t \in FinishMount([Page EXCEPT !.creditsMap = SetCredits(creditsMap, items)]) :
            Becomes(t)
    /\ pc' = "done"
    /\ op' = "onMount"
    /\ UNCHANGED <<sampleVars, scriptVars, modalVars>>

\* ------------------------------------------------------------ user events
\* <button on:click={nextImage}>
ClickNextImage ==
    /\ \E t \in nextImage(Page) : Becomes(t)
    /\ op' = "nextImage"
    /\ UNCHANGED <<pc, sampleVars, scriptVars, modalVars>>

\* <button class="card" on:click={reveal}>, rendered {#if current}
ClickReveal ==
    /\ current # Null
    /\ \E t \in reveal(Page) : Becomes(t)
    /\ op' = "reveal"
    /\ UNCHANGED <<pc, sampleVars, scriptVars, modalVars>>

\* <button on:click={reshuffleDeck}>
ClickShuffleDeck ==
    /\ \E t \in reshuffleDeck(Page) : Becomes(t)
    /\ op' = "reshuffleDeck"
    /\ UNCHANGED <<pc, sampleVars, scriptVars, modalVars>>

\* <Svelecte options={classes} bind:value={selectedList} onChange={onSelectionChange}>
ChangeSelection ==
    /\ \E value \in WidgetValues(classes, selectedList) :
         \E t \in onSelectionChange(Page, value) : Becomes(t)
    /\ op' = "onSelectionChange"
    /\ UNCHANGED <<pc, sampleVars, scriptVars, modalVars>>

Next ==
    \/ ManifestFetchFails
    \/ ManifestFetched
    \/ ManifestJsonFails
    \/ ManifestLoaded
    \/ CreditsFetchFails
    \/ CreditsFetched
    \/ CreditsJsonFails
    \/ CreditsLoaded
    \/ ClickNextImage
    \/ ClickReveal
    \/ ClickShuffleDeck
    \/ ChangeSelection

Spec == Init /\ [][Next]_vars

\* --------------------------------- buildPracticeDeck as a specification
\* One call of buildPracticeDeck(labels) on a loaded manifest.  Besides the
\* page's manifests, a class may list up to one image more than PER_CLASS.
Iota(k) == [i \in 1..k |-> i]

LongLabel == LabelUniverse[Len(LabelUniverse)]

LongManifests ==
    { ManifestOf(files) :
        files \in UNION { { [cls \in {LongLabel} \cup others |->
                               IF cls = LongLabel THEN Iota(k) ELSE <<>>] :
                             others \in SUBSET (Labels \ {LongLabel}) } :
                          k \in (MaxCards + 1)..(PER_CLASS + 1) } }

RECURSIVE DistinctSeqs(_)
DistinctSeqs(S) ==
    {<<>>} \cup UNION { { <<x>> \o rest : rest \in DistinctSeqs(S \ {x}) } : x \in S }

InitBuild ==
    /\ manifest \in Manifests \cup LongManifests
    /\ classes = SortedKeys(DOMAIN manifest)
    /\ current = Null
    /\ revealed = FALSE
    /\ deck = <<>>
    /\ drawPile = <<>>
    /\ selectedList = <<>>
    /\ ready = TRUE
    /\ creditsMap = <<>>
    /\ creditURL = Null
    /\ creditHost = Null
    /\ pc = "done"
    /\ op = "init"
    /\ drawn = <<>>
    /\ refillAfter = 0 - 1
    /\ labelsArg = <<>>
    /\ InitSampleIdle
    /\ InitScriptsIdle
    /\ InitModalIdle

CallBuildPracticeDeck ==
    /\ op = "init"
    /\ \E labels \in DistinctSeqs(Labels) :
         \E tmp \in DeckPicks(manifest, SortLabels(labels)) :
            \E pile \in shuffleInPlace(tmp) :
               Becomes(Built(Page, SortLabels(labels), tmp, pile))
    /\ op' = "buildPracticeDeck"
    /\ UNCHANGED <<pc, sampleVars, scriptVars, modalVars>>

NextBuild == CallBuildPracticeDeck

SpecBuild == InitBuild /\ [][NextBuild]_vars

\* ------------------------------------------- nextImage as a specification
\* One call of buildPracticeDeck on a manifest of one class with up to MaxPile
\* images, then calls of nextImage and reveal: passes through a drawPile of
\* more cards than the page's manifests give.
PileManifests ==
    { ManifestOf([cls \in {LongLabel} |-> files]) : files \in ArraysUpTo(MaxPile) }

InitDraw ==
    /\ manifest \in PileManifests
    /\ classes = SortedKeys(DOMAIN manifest)
    /\ current = Null
    /\ revealed = FALSE
    /\ deck = <<>>
    /\ drawPile = <<>>
    /\ selectedList = <<>>
    /\ ready = TRUE
    /\ creditsMap = <<>>
    /\ creditURL = Null
    /\ creditHost = Null
    /\ pc = "done"
    /\ op = "init"
    /\ drawn = <<>>
    /\ refillAfter = 0 - 1
    /\ labelsArg = <<>>
    /\ InitSampleIdle
    /\ InitScriptsIdle
    /\ InitModalIdle

NextDraw ==
    \/ CallBuildPracticeDeck
    \/ ClickNextImage
    \/ ClickReveal

SpecDraw == InitDraw /\ [][NextDraw]_vars

\* ------------------------------------------ sampleUpTo as a specification
\* One call of sampleUpTo(arr, n) or of shuffleInPlace(arr).
InitSample ==
    /\ arr \in ArraysUpTo(MaxLen)
    /\ n \in (0 - MaxN)..MaxN
    /\ result = <<>>
    /\ phase = "call"
    /\ manifest = <<>>
    /\ classes = <<>>
    /\ current = Null
    /\ revealed = FALSE
    /\ deck = <<>>
    /\ drawPile = <<>>
    /\ selectedList = <<>>
    /\ ready = FALSE
    /\ creditsMap = <<>>
    /\ creditURL = Null
    /\ creditHost = Null
    /\ pc = "idle"
    /\ op = "init"
    /\ drawn = <<>>
    /\ refillAfter = 0 - 1
    /\ labelsArg = <<>>
    /\ InitScriptsIdle
    /\ InitModalIdle

CallSampleUpTo ==
    /\ phase = "call"
    /\ \E r \in sampleUpToRun(arr, n) :
         /\ result' = r.ret
         /\ arr' = r.arr
    /\ phase' = "returned"
    /\ UNCHANGED <<n, pageVars, scriptVars, modalVars>>

\* One call of shuffleInPlace(arr): arr itself is shuffled and returned.
CallShuffleInPlace ==
    /\ phase = "call"
    /\ result' \in shuffleInPlace(arr)
    /\ arr' = result'
    /\ phase' = "shuffled"
    /\ UNCHANGED <<n, pageVars, scriptVars, modalVars>>

NextSample ==
    \/ CallSampleUpTo
    \/ CallShuffleInPlace

SpecSample == InitSample /\ [][NextSample]_vars

\* ------------------------------------------------------ the folder filter
\* The script that copies the allowed folders of SRC to DEST.  A file or
\* folder name is a sequence of pieces: a word in some letter case, a
\* whitespace character, an underscore, a dot, a digit.
InitPageIdle ==
    /\ manifest = <<>>
    /\ classes = <<>>
    /\ current = Null
    /\ revealed = FALSE
    /\ deck = <<>>
    /\ drawPile = <<>>
    /\ selectedList = <<>>
    /\ ready = FALSE
    /\ creditsMap = <<>>
    /\ creditURL = Null
    /\ creditHost = Null
    /\ pc = "idle"
    /\ op = "init"
    /\ drawn = <<>>
    /\ refillAfter = 0 - 1
    /\ labelsArg = <<>>

\* String.prototype.toLowerCase, piece by piece.
Lower(p) ==
    CASE p = "Rock" -> "rock"
      [] p = "Salt" -> "salt"
      [] p = "Basalt" -> "basalt"
      [] p = "Obsidian" -> "obsidian"
      [] p = "IMG" -> "img"
      [] p = "PNG" -> "png"
      [] OTHER -> p

toLowerCase(name) == [i \in 1..Len(name) |-> Lower(name[i])]

\* The regular expression class \s.
IsSpace(p) == p \in {" ", "\t"}

\* The rest of s after its leading whitespace.
RECURSIVE SkipSpaces(_)
SkipSpaces(s) ==
    IF s # <<>> /\ IsSpace(s[1]) THEN SkipSpaces(Tail(s)) ELSE s

\* replace(/\s/g, "_"): every whitespace character becomes an underscore.
ReplaceEachSpace(s) == [i \in 1..Len(s) |-> IF IsSpace(s[i]) THEN "_" ELSE s[i]]

\* replace(/\s+/g, "_"): left to right, each maximal run of whitespace
\* becomes one underscore.
RECURSIVE ReplaceSpaceRuns(_)
ReplaceSpaceRuns(s) ==
    IF s = <<>> THEN <<>>
    ELSE IF IsSpace(s[1]) THEN <<"_">> \o ReplaceSpaceRuns(SkipSpaces(Tail(s)))
    ELSE <<s[1]>> \o ReplaceSpaceRuns(Tail(s))

\* const norm = folder.toLowerCase().replace(/\s+/g, "_")
Norm(folder) == ReplaceSpaceRuns(toLowerCase(folder))

ALLOWED ==
    { <<"peridotite">>, <<"basalt">>, <<"gabbro">>, <<"andesite">>, <<"diorite">>,
      <<"rhyolite">>, <<"granite">>, <<"tuff">>,
      <<"mudstone">>, <<"shale">>, <<"siltstone">>, <<"sandstone">>, <<"conglomerate">>,
      <<"rock", "_", "salt">>, <<"rock", "_", "gypsum">>, <<"travertine">>,
      <<"limestone">>, <<"chert">>, <<"coal">>,
      <<"slate">>, <<"phyllite">>, <<"schist">>, <<"gneiss">>, <<"hornfels">>,
      <<"quartzite">>, <<"marble">>, <<"migmatite">>,
      <<"quartz">>, <<"plagioclase", "_", "feldspar">>, <<"potassium", "_", "feldspar">>,
      <<"muscovite", "_", "mica">>, <<"biotite", "_", "mica">>, <<"olivine">>,
      <<"pyroxene">>, <<"amphibole">>,
      <<"calcite">>, <<"gypsum">>, <<"halite">>, <<"hematite">>, <<"magnetite">>,
      <<"garnet">>, <<"kyanite">>, <<"staurolite">>, <<"corundum">> }

\* Directory entries: a regular file with its content, a directory with its
\* tree (a function from names to entries), anything else (a symbolic link).
File(bytes) == [kind |-> "file", bytes |-> bytes]
Symlink == [kind |-> "other"]
Dir(tree) == [kind |-> "dir", tree |-> tree]

EmptyTree == [name \in {} |-> Symlink]

\* copyDir(src, dest) into a new dest: the tree it makes there.  Directories
\* are copied recursively, regular files with copyFile, other entries not.
RECURSIVE copyDir(_)
copyDir(src) ==
    [name \in {x \in DOMAIN src : src[x].kind \in {"dir", "file"}} |->
        IF src[name].kind = "dir" THEN Dir(copyDir(src[name].tree))
        ELSE File(src[name].bytes)]

\* Names of folders and files of the source tree.
FolderPieces == {"Rock", "Salt", "Basalt", "Obsidian", " ", "\t", "_"}

RECURSIVE NamesOfLen(_)
NamesOfLen(k) ==
    IF k = 0 THEN {<<>>}
    ELSE { Append(s, p) : s \in NamesOfLen(k - 1), p \in FolderPieces }

FolderNames(k) == UNION { NamesOfLen(j) : j \in 1..k }

InnerTree == (<<"Salt">> :> File(2)) @@ (<<"_">> :> Symlink)

FullTree ==
    (<<"Rock", " ", "Salt">> :> File(1)) @@ (<<"Obsidian">> :> Dir(InnerTree))
        @@ (<<"Rock">> :> Dir(EmptyTree)) @@ (<<"_">> :> Symlink)

Entries == {File(1), Symlink, Dir(FullTree)}

\* Source trees of one top-level entry with a name of up to maxName pieces,
\* or of two with one piece less between them.
SourceTrees(maxName) ==
    { (a :> e) : a \in FolderNames(maxName), e \in Entries }
    \cup UNION { { (ab[1] :> e1) @@ (ab[2] :> e2) :
                     ab \in { q \in NamesOfLen(k) \X FolderNames(maxName - 1 - k) :
                               q[1] # q[2] },
                     e1 \in Entries, e2 \in Entries } :
                 k \in 1..(maxName - 2) }

\* main has made DEST and read the entries of SRC.
InitFilter ==
    /\ SRC \in SourceTrees(MaxName)
    /\ DEST = EmptyTree
    /\ itemsLeft = DOMAIN SRC
    /\ ROOT = <<>>
    /\ todo = <<>>
    /\ data = <<>>
    /\ OUT = Null
    /\ InitPageIdle
    /\ InitModalIdle
    /\ InitSampleIdle

\* One round of main's loop "for (const item of items)".
FilterItem ==
    /\ \E folder \in itemsLeft :
         /\ itemsLeft' = itemsLeft \ {folder}
         /\ IF SRC[folder].kind # "dir" THEN DEST' = DEST
            ELSE IF Norm(folder) \in ALLOWED
                 THEN DEST' = (folder :> Dir(copyDir(SRC[folder].tree))) @@ DEST
                 ELSE DEST' = DEST
    /\ UNCHANGED <<SRC, ROOT, todo, data, OUT, pageVars, sampleVars, modalVars>>

NextFilter == FilterItem

SpecFilter == InitFilter /\ [][NextFilter]_vars

\* ---------------------------------------------------- the manifest writer
\* The script that lists the class directories of ROOT and writes the
\* manifest.  A directory listing is the sequence of entries readdir returns.
IsDigit(p) == p \in {"0", "1", "2", "3", "4", "5", "6", "7", "8", "9"}

DigitValue(p) ==
    CASE p = "0" -> 0 [] p = "1" -> 1 [] p = "2" -> 2 [] p = "3" -> 3 [] p = "4" -> 4
      [] p = "5" -> 5 [] p = "6" -> 6 [] p = "7" -> 7 [] p = "8" -> 8 [] p = "9" -> 9

\* Pieces in the order of the collation's primary weights: whitespace,
\* punctuation, digits, letters.
CollationOrder ==
    <<" ", "_", ".", "digit", "basalt", "granite", "img", "obsidian", "png", "rock",
      "salt", "txt">>

PieceRank(p) ==
    CHOOSE i \in 1..Len(CollationOrder) :
        CollationOrder[i] = (IF IsDigit(p) THEN "digit" ELSE Lower(p))

\* The collation keys of a name without { numeric: true }: every piece by its
\* primary weight, a digit by its own value.
PlainKeys(name) ==
    [i \in 1..Len(name) |->
        <<PieceRank(name[i]), IF IsDigit(name[i]) THEN DigitValue(name[i]) ELSE 0>>]

\* The collation keys of a name under { numeric: true, sensitivity: 'base' }:
\* letter case ignored, a maximal run of digits as one key with its value.
RECURSIVE NumericKeys(_, _)
NumericKeys(name, run) ==
    IF name = <<>> THEN (IF run = 0 - 1 THEN <<>> ELSE << <<PieceRank("0"), run>> >>)
    ELSE IF IsDigit(name[1])
         THEN NumericKeys(Tail(name), (IF run = 0 - 1 THEN 0 ELSE run * 10) + DigitValue(name[1]))
         ELSE (IF run = 0 - 1 THEN <<>> ELSE << <<PieceRank("0"), run>> >>)
              \o << <<PieceRank(name[1]), 0>> >> \o NumericKeys(Tail(name), 0 - 1)

\* Key sequences compared key by key; a proper prefix comes first.
RECURSIVE CompareKeys(_, _)
CompareKeys(x, y) ==
    IF x = <<>> /\ y = <<>> THEN 0
    ELSE IF x = <<>> THEN 0 - 1
    ELSE IF y = <<>> THEN 1
    ELSE IF x[1][1] # y[1][1] THEN (IF x[1][1] < y[1][1] THEN 0 - 1 ELSE 1)
    ELSE IF x[1][2] # y[1][2] THEN (IF x[1][2] < y[1][2] THEN 0 - 1 ELSE 1)
    ELSE CompareKeys(Tail(x), Tail(y))

\* a.localeCompare(b) without options: digits compare one by one.
plainSort(a, b) == CompareKeys(PlainKeys(a), PlainKeys(b))

\* a.localeCompare(b, undefined, { numeric: true, sensitivity: 'base' })
naturalSort(a, b) == CompareKeys(NumericKeys(a, 0 - 1), NumericKeys(b, 0 - 1))

\* names.sort(naturalSort): the sort is stable.
RECURSIVE SortNatural(_)
SortNatural(s) ==
    IF s = <<>> THEN <<>>
    ELSE LET x    == s[Len(s)]
             done == SortNatural(SubSeq(s, 1, Len(s) - 1))
             k    == Cardinality({i \in 1..Len(done) : naturalSort(done[i], x) <= 0})
         IN  SubSeq(done, 1, k) \o <<x>> \o SubSeq(done, k + 1, Len(done))

IMAGE_EXT ==
    {<<".", "jpg">>, <<".", "jpeg">>, <<".", "png">>, <<".", "webp">>, <<".", "gif">>}

\* name.lastIndexOf(ch), 0-based, -1 when ch is not in name.
lastIndexOf(name, ch) ==
    LET at == {i \in 1..Len(name) : name[i] = ch}
    IN  IF at = {} THEN 0 - 1 ELSE (CHOOSE i \in at : \A j \in at : j <= i) - 1

ext(name) ==
    LET i == lastIndexOf(name, ".")
    IN  IF i >= 0 THEN toLowerCase(Slice(name, i, Len(name))) ELSE <<>>

\* (await readdir(dir)).filter(d => d.isDirectory()).map(d => d.name)
listDir(dir) ==
    LET dirs == SelectSeq(dir, LAMBDA d : d.kind = "dir")
    IN  [i \in 1..Len(dirs) |-> dirs[i].name]

listFiles(dir) ==
    LET images == SelectSeq(dir, LAMBDA d : d.kind = "file" /\ ext(d.name) \in IMAGE_EXT)
    IN  SortNatural([i \in 1..Len(images) |-> images[i].name])

\* encodeURIComponent: of the pieces of a name only a space is escaped.
encodeURIComponent(name) ==
    [i \in 1..Len(name) |-> IF name[i] = " " THEN "%20" ELSE name[i]]

\* File names: "img", a number, an extension or none; the longer numbers
\* with .png only.
DigitRuns == {<<"1">>, <<"2">>, <<"1", "0">>, <<"0", "1">>}

Extensions == {<<".", "png">>, <<".", "PNG">>, <<".", "txt">>, <<>>}

FileNames ==
    { <<"img">> \o d \o <<".", "png">> : d \in DigitRuns }
    \cup { <<"img">> \o d \o e : d \in {<<"1">>, <<"2">>}, e \in Extensions }

\* Entries of a class directory: regular files, a sub-directory and a
\* symbolic link with the names of images.
ClassEntries ==
    { [name |-> f, kind |-> "file"] : f \in FileNames }
    \cup { [name |-> <<"img", "1", ".", "png">>, kind |-> "dir"],
           [name |-> <<"img", "2", ".", "png">>, kind |-> "other"] }

RECURSIVE ListingsOfLen(_)
ListingsOfLen(k) ==
    IF k = 0 THEN {<<>>}
    ELSE UNION { { Append(l, e) : e \in { x \in ClassEntries :
                                            \A i \in 1..Len(l) : l[i].name # x.name } } :
                 l \in ListingsOfLen(k - 1) }

Listings(k) == UNION { ListingsOfLen(j) : j \in 0..k }

ClassNames == {<<"basalt">>, <<"Rock", " ", "Salt">>}

\* Listings of ROOT: one class directory of up to maxFiles entries, or two
\* entries, one of them a class directory, with one entry less between them.
Roots(maxFiles) ==
    { << [name |-> c, kind |-> "dir", list |-> l] >> :
        c \in ClassNames, l \in Listings(maxFiles) }
    \cup UNION { { << [name |-> cc[1], kind |-> "dir", list |-> l1],
                      [name |-> cc[2], kind |-> k2, list |-> l2] >> :
                     cc \in { q \in ClassNames \X ClassNames : q[1] # q[2] },
                     l1 \in ListingsOfLen(j),
                     k2 \in {"dir", "file"},
                     l2 \in Listings(maxFiles - 1 - j) } :
                 j \in 0..(maxFiles - 1) }

\* main has listed the class directories of ROOT and sorted their names.
InitManifest ==
    /\ ROOT \in Roots(MaxFiles)
    /\ todo = SortNatural(listDir(ROOT))
    /\ data = [cls \in {} |-> <<>>]
    /\ OUT = Null
    /\ SRC = <<>>
    /\ DEST = <<>>
    /\ itemsLeft = {}
    /\ InitPageIdle
    /\ InitModalIdle
    /\ InitSampleIdle

\* One round of main's loop "for (const cls of classes.sort(naturalSort))".
ListClass ==
    /\ todo # <<>>
    /\ LET cls   == Head(todo)
           abs   == (CHOOSE d \in Range(ROOT) : d.name = cls).list
           files == listFiles(abs)
       IN  data' = (cls :> [i \in 1..Len(files) |->
                               ImageURL(encodeURIComponent(cls),
                                        encodeURIComponent(files[i]))]) @@ data
    /\ todo' = Tail(todo)
    /\ UNCHANGED <<ROOT, OUT, SRC, DEST, itemsLeft, pageVars, sampleVars, modalVars>>

\* await writeFile(OUT, JSON.stringify(data), 'utf-8')
WriteManifest ==
    /\ todo = <<>>
    /\ OUT = Null
    /\ OUT' = [json |-> data]
    /\ UNCHANGED <<ROOT, todo, data, SRC, DEST, itemsLeft, pageVars, sampleVars, modalVars>>

NextManifest ==
    \/ ListClass
    \/ WriteManifest

SpecManifest == InitManifest /\ [][NextManifest]_vars

\* ------------------------------------------------------ the modal dialog
\* Modal.svelte.  A handler is a function on the record World of the
\* component and the document: dirty collects the variables the handler
\* invalidated, which decide the reactive statements the next update runs;
\* stopped is the keydown event's stopPropagation flag.  Focus (opener,
\* trapFocus, the Tab key's wrap-around) is left out: it touches neither
\* open, nor the document's overflow, nor the dispatched events.
World ==
    [browser |-> browser,
     open |-> modal.open, closeOnEsc |-> modal.closeOnEsc,
     closeOnBackdrop |-> modal.closeOnBackdrop, mounted |-> modal.mounted,
     life |-> modal.life, rendered |-> modal.rendered,
     overflow |-> overflow, dispatched |-> <<>>, dirty |-> {}, stopped |-> FALSE]

ModalBecomes(t) ==
    /\ modal' = [open |-> t.open, closeOnEsc |-> t.closeOnEsc,
                 closeOnBackdrop |-> t.closeOnBackdrop, mounted |-> t.mounted,
                 life |-> t.life, rendered |-> t.rendered]
    /\ overflow' = t.overflow
    /\ dispatched' = t.dispatched
    /\ browser' = t.browser

\* An assignment to a variable of the component: it is marked dirty when the
\* value changes.
Assign(s, field, value) ==
    IF s[field] = value THEN s
    ELSE [s EXCEPT ![field] = value, !.dirty = @ \cup {field}]

lockScroll(s) == IF s.browser THEN [s EXCEPT !.overflow = "hidden"] ELSE s

unlockScroll(s) == IF s.browser THEN [s EXCEPT !.overflow = ""] ELSE s

dispatch(s, name) == [s EXCEPT !.dispatched = Append(@, name)]

\* openModal: opener = document.activeElement; lockScroll(); dispatch("open"); trapFocus()
openModal(s) ==
    IF ~s.browser THEN s
    ELSE dispatch(lockScroll(s), "open")

\* close: open = false; unlockScroll(); dispatch("close"); focus back to opener
close(s) == dispatch(unlockScroll(Assign(s, "open", FALSE)), "close")

\* handleKeydown: Escape closes; Tab moves the focus inside the dialog.
handleKeydown(s, e) ==
    IF ~s.open THEN s
    ELSE IF e.key = "Escape" /\ s.closeOnEsc THEN [close(s) EXCEPT !.stopped = TRUE]
    ELSE s

\* backdropClick: e.onBackdrop is e.target === e.currentTarget.
backdropClick(s, e) ==
    IF ~s.closeOnBackdrop THEN s
    ELSE IF e.onBackdrop THEN close(s)
    ELSE s

\* Without "$: if (mounted && !open) unlockScroll()".
ReactiveOpenOnly(s) ==
    IF s.mounted /\ s.open THEN openModal(s) ELSE s

\* $: if (mounted && open) openModal();  $: if (mounted && !open) unlockScroll();
Reactive(s) ==
    LET a == IF s.mounted /\ s.open THEN openModal(s) ELSE s
    IN  IF a.mounted /\ ~a.open THEN unlockScroll(a) ELSE a

\* The update after a handler: the reactive statements run when mounted or
\* open was invalidated, then the {#if open} block is brought up to date.
Flush(s) ==
    LET t == IF s.dirty \cap {"mounted", "open"} # {} THEN Reactive(s) ELSE s
    IN  [t EXCEPT !.rendered = t.open, !.dirty = {}, !.stopped = FALSE]

\* A keydown event: the window's capturing listener first, then, unless the
\* propagation was stopped, the dialog's on:keydown when the target is inside it.
KeydownHandlers(s, e) ==
    LET a == handleKeydown(s, e)
    IN  IF ~a.stopped /\ e.inside THEN handleKeydown(a, e) ELSE a

Keys == {"Escape", "Tab", "a"}

\* The component was created (its script ran, with the reactive statements
\* finding mounted false) with the props its parent passed.
InitModal ==
    /\ browser \in BOOLEAN
    /\ modal \in [open : BOOLEAN, closeOnEsc : BOOLEAN, closeOnBackdrop : BOOLEAN,
                  mounted : {FALSE}, life : {"created"}, rendered : {FALSE}]
    /\ overflow = ""
    /\ dispatched = <<>>
    /\ event = [name |-> "create", arg |-> Null, wasOpen |-> modal.open]
    /\ InitPageIdle
    /\ InitSampleIdle
    /\ InitScriptsIdle

\* The component is mounted in the browser: its markup is in the document,
\* onMount's callback runs, and the update it scheduled follows.
Mount ==
    /\ modal.life = "created"
    /\ browser
    /\ ModalBecomes(Flush(Assign([World EXCEPT !.life = "mounted", !.rendered = modal.open],
                                 "mounted", TRUE)))
    /\ event' = [name |-> "mount", arg |-> Null, wasOpen |-> modal.open]
    /\ UNCHANGED <<pageVars, sampleVars, scriptVars>>

\* The parent changes the open prop (bind:open={show}).
ParentSetsOpen ==
    /\ modal.life = "mounted"
    /\ \E value \in BOOLEAN \ {modal.open} :
         /\ ModalBecomes(Flush(Assign(World, "open", value)))
         /\ event' = [name |-> "setOpen", arg |-> [value |-> value], wasOpen |-> modal.open]
    /\ UNCHANGED <<pageVars, sampleVars, scriptVars>>

\* The parent changes the closeOnEsc or the closeOnBackdrop prop.
ParentSetsOption ==
    /\ modal.life = "mounted"
    /\ \E field \in {"closeOnEsc", "closeOnBackdrop"} :
         /\ ModalBecomes(Flush(Assign(World, field, ~modal[field])))
         /\ event' = [name |-> "setOption", arg |-> [field |-> field], wasOpen |-> modal.open]
    /\ UNCHANGED <<pageVars, sampleVars, scriptVars>>

\* A key is pressed, with the focus inside the dialog or elsewhere.
Keydown ==
    /\ modal.life = "mounted"
    /\ \E key \in Keys, inside \in {b \in BOOLEAN : b => modal.rendered} :
         LET e == [key |-> key, inside |-> inside]
         IN  /\ ModalBecomes(Flush(KeydownHandlers(World, e)))
             /\ event' = [name |-> "keydown", arg |-> e, wasOpen |-> modal.open]
    /\ UNCHANGED <<pageVars, sampleVars, scriptVars>>

\* A click on the backdrop itself, or inside the dialog and bubbling to it.
ClickBackdrop ==
    /\ modal.life = "mounted"
    /\ modal.rendered
    /\ \E onBackdrop \in BOOLEAN :
         LET e == [onBackdrop |-> onBackdrop]
         IN  /\ ModalBecomes(Flush(backdropClick(World, e)))
             /\ event' = [name |-> "click", arg |-> e, wasOpen |-> modal.open]
    /\ UNCHANGED <<pageVars, sampleVars, scriptVars>>

\* The component is destroyed: onDestroy(unlockScroll), the keydown listener
\* and the markup are removed.  On the server it is destroyed unmounted.
Destroy ==
    /\ \/ modal.life = "mounted"
       \/ modal.life = "created" /\ ~browser
    /\ ModalBecomes([unlockScroll(World) EXCEPT !.life = "destroyed", !.rendered = FALSE])
    /\ event' = [name |-> "destroy", arg |-> Null, wasOpen |-> modal.open]
    /\ UNCHANGED <<pageVars, sampleVars, scriptVars>>

NextModal ==
    \/ Mount
    \/ ParentSetsOpen
    \/ ParentSetsOption
    \/ Keydown
    \/ ClickBackdrop
    \/ Destroy

SpecModal == InitModal /\ [][NextModal]_vars

\* ------------------------------------------------------------ properties
NoDup(s) == \A i, j \in 1..Len(s) : s[i] = s[j] => i = j

Count(s, x) == Cardinality({i \in 1..Len(s) : s[i] = x})

\* Every element of a, counted with its repetitions, is an element of b.
SubBag(a, b) == \A x \in Range(a) : Count(a, x) <= Count(b, x)

SameCards(a, b) == Len(a) = Len(b) /\ SubBag(a, b)

\* The manifest's image references are pairwise distinct.
DistinctRefs(m) == \A cls \in DOMAIN m : NoDup(m[cls])

DeckLabels == {deck[i].label : i \in 1..Len(deck)}

CardsOf(label) == SelectSeq(deck, LAMBDA c : c.label = label)

\* C1: no repeat until exhaustion.  With pairwise distinct image references,
\* the cards popped since the drawPile was last filled are pairwise distinct
\* and, with the cards still in the drawPile, are exactly the deck (so the N
\* draws after a fill are the N cards of the deck); a nextImage call refills the
\* drawPile only after all N cards of the deck were popped since the fill before
\* (the first refill after a build is on draw N+1); from an empty deck no card
\* is drawn.
C1_NoRepeatUntilExhaustion ==
    DistinctRefs(manifest) =>
        /\ NoDup(drawn)
        /\ SameCards(drawn \o drawPile, deck)
        /\ (refillAfter # 0 - 1 => refillAfter = Len(deck))
        /\ (deck = <<>> => drawn = <<>>)

\* A deck of more than one card was drawn to its end, and the next call has
\* refilled the drawPile and drawn the first card of the next pass.
C1_Witness ==
    /\ DistinctRefs(manifest)
    /\ op = "nextImage"
    /\ Len(deck) > 1
    /\ refillAfter = Len(deck)
    /\ Len(drawn) = 1

\* C2: after buildPracticeDeck(L) the deck has the sum, over the labels c of L,
\* of min(PER_CLASS, |manifest[c]|) cards, a label missing from the manifest
\* counting 0, and the drawPile has as many cards as the deck.
C2_DeckSize ==
    op = "buildPracticeDeck" =>
        /\ Len(deck) = Total([c \in Range(labelsArg) |->
                                 Min(PER_CLASS, Len(ImagesOf(manifest, c)))],
                             Range(labelsArg))
        /\ Len(drawPile) = Len(deck)

\* A build from a label with more than PER_CLASS images and a label the
\* manifest does not have.
C2_Witness ==
    /\ op = "buildPracticeDeck"
    /\ \E c \in Range(labelsArg) : Len(ImagesOf(manifest, c)) > PER_CLASS
    /\ \E c \in Range(labelsArg) : c \notin DOMAIN manifest
    /\ Len(deck) = PER_CLASS

\* C3: for n >= 0, sampleUpTo(items, n) returns min(n, |items|) elements, each
\* from a position of its own of items (no element more often than in items).
C3_SampleSize ==
    (phase = "returned" /\ n >= 0) =>
        /\ Len(result) = Min(n, Len(arr))
        /\ SubBag(result, arr)
        /\ Range(result) \subseteq Range(arr)

\* A proper sample, in another order than the array's, of an array with a
\* repeated element.
C3_Witness ==
    /\ phase = "returned"
    /\ n >= 2
    /\ n < Len(arr)
    /\ ~NoDup(arr)
    /\ result # SubSeq(arr, 1, n)

\* C4: sampleUpTo(items, n) returns the empty sequence for every n <= 0 and for
\* empty items.
C4_EmptyForNonPositive ==
    (phase = "returned" /\ (n <= 0 \/ arr = <<>>)) => result = <<>>

\* C5: a handler the user triggers (Next Image, reveal, selection change,
\* Shuffle Deck) while ready is false leaves deck, drawPile, current and
\* revealed unchanged.
C5_ReadinessGating ==
    [][(~ready /\ op' \in {"nextImage", "reveal", "onSelectionChange", "reshuffleDeck"})
          => UNCHANGED <<deck, drawPile, current, revealed>>]_vars

\* The labels the filter stands for: the selected ones, or all of the
\* manifest's when none is selected, each with at least one image.
EffectiveLabels ==
    { c \in (IF selectedList # <<>> THEN Range(selectedList) ELSE DOMAIN manifest) :
        Len(ImagesOf(manifest, c)) >= 1 }

\* C6: after a selection change handled while ready, the labels of the deck's
\* cards are exactly the effective labels.
C6_DeckFollowsSelection ==
    (op = "onSelectionChange" /\ ready) => DeckLabels = EffectiveLabels

\* A proper, non-empty subset of the manifest's labels was selected and the
\* deck rebuilt from it, while another label has images.
C6_Witness ==
    /\ op = "onSelectionChange"
    /\ ready
    /\ selectedList # <<>>
    /\ Range(selectedList) # DOMAIN manifest
    /\ deck # <<>>
    /\ \E c \in DOMAIN manifest \ Range(selectedList) : Len(manifest[c]) >= 1

\* C7: every card of the deck has a label of the manifest with a non-empty
\* image list and a url of that list; a label has at most PER_CLASS cards and at
\* most as many as it has images; the deck has at most PER_CLASS cards per label
\* it was built from.
C7_DeckWithinManifest ==
    /\ \A i \in 1..Len(deck) :
         /\ deck[i].label \in DOMAIN manifest
         /\ manifest[deck[i].label] # <<>>
         /\ deck[i].url \in Range(manifest[deck[i].label])
    /\ \A c \in DeckLabels :
         /\ Len(CardsOf(c)) <= PER_CLASS
         /\ Len(CardsOf(c)) <= Len(ImagesOf(manifest, c))
    /\ Len(deck) <= PER_CLASS * Len(labelsArg)

\* A deck of PER_CLASS cards of a label that has more images.
C7_Witness ==
    /\ op = "buildPracticeDeck"
    /\ \E c \in DeckLabels :
         /\ Len(CardsOf(c)) = PER_CLASS
         /\ Len(manifest[c]) > PER_CLASS

\* C8: with pairwise distinct image references, the drawPile has no card
\* twice, only cards of the deck and at most as many; no card was popped twice
\* since the drawPile was last filled.
C8_DrawPileOfDeck ==
    DistinctRefs(manifest) =>
        /\ NoDup(drawPile)
        /\ Range(drawPile) \subseteq Range(deck)
        /\ Len(drawPile) <= Len(deck)
        /\ NoDup(drawn)

\* In the middle of a pass: a card popped, a card left.
C8_Witness ==
    /\ DistinctRefs(manifest)
    /\ op = "nextImage"
    /\ Len(drawn) >= 1
    /\ Len(drawPile) >= 1

\* C9: the current card is none, or the card of the current deck that
\* nextImage popped last since the deck was built, and it is not in the
\* drawPile.
C9_CurrentFromDrawPile ==
    current # Null =>
        /\ current \in Range(deck)
        /\ Len(drawn) >= 1
        /\ drawn[Len(drawn)] = current
        /\ (DistinctRefs(manifest) => current \notin Range(drawPile))

\* The startup finished after the user, before ready, shuffled the deck and
\* changed the selection.
C9_Witness ==
    /\ pc = "done"
    /\ op = "onMount"
    /\ current # Null
    /\ selectedList # <<>>
    /\ Len(drawPile) >= 1

\* C10: nextImage on an empty deck changes none of current, revealed, deck,
\* creditURL and creditHost, and leaves the drawPile empty.
C10_NextImageOnEmptyDeck ==
    [][(op' = "nextImage" /\ deck = <<>>)
          => /\ UNCHANGED <<current, revealed, deck, creditURL, creditHost>>
             /\ drawPile' = <<>>]_vars

\* Next Image was clicked on a loaded manifest's empty deck while the credit of
\* an earlier card is still set.
C10_Witness ==
    /\ op = "nextImage"
    /\ ready
    /\ deck = <<>>
    /\ refillAfter = 0
    /\ creditURL # Null

\* C11: reveal is idempotent and changes only the revealed flag.  From every
\* reachable state, reveal ends in one state, which has revealed set and
\* differs from the state it started in at most in revealed, and reveal
\* applied to that state leaves it as it is; after a reveal step of the page
\* revealed is set.
C11_RevealIdempotent ==
    /\ \A t \in reveal(Page) :
         /\ \A f \in DOMAIN t \ {"revealed"} : t[f] = Page[f]
         /\ t.revealed
         /\ reveal(t) = {t}
    /\ Cardinality(reveal(Page)) = 1
    /\ op = "reveal" => revealed

\* The card on display was revealed while cards are left in the drawPile.
C11_Witness ==
    /\ op = "reveal"
    /\ revealed
    /\ current # Null
    /\ Len(drawPile) >= 1

\* C12: the life of the reveal flag.  revealed goes from false to true only in
\* a reveal step; revealed is false after every step that replaces or clears the
\* current card: a nextImage that draws a card, a selection change handled
\* while ready, Shuffle Deck, and the end of startup (deck build and first
\* draw), and after any step that changes current; no other step changes
\* revealed.
C12_RevealLifecycle ==
    [][LET replaces == \/ op' = "nextImage" /\ (drawPile # <<>> \/ deck # <<>>)
                       \/ op' = "onSelectionChange" /\ ready
                       \/ op' = "reshuffleDeck"
                       \/ op' \in {"onMount", "onMountCatch"} /\ ready'
       IN  /\ (~revealed /\ revealed') => op' = "reveal"
           /\ replaces => ~revealed'
           /\ current' # current => ~revealed'
           /\ revealed' # revealed => (op' = "reveal" \/ replaces)]_vars

\* Next Image has drawn the second card of a pass: the flag is down.
C12_Witness ==
    /\ op = "nextImage"
    /\ ~revealed
    /\ current # Null
    /\ Len(drawn) >= 2

\* C13: nextImage never changes the deck (nor the manifest).  When it finds
\* the drawPile empty, the refilled drawPile is a permutation of the unchanged
\* deck: the card it then pops and the cards left make up the deck, and with an
\* empty deck it pops nothing.  Otherwise it removes the last element of the
\* drawPile and makes it the current card, the elements before it staying in
\* their order.
C13_NextImageFrame ==
    [][op' = "nextImage" =>
          /\ deck' = deck
          /\ manifest' = manifest
          /\ IF drawPile = <<>>
             THEN /\ refillAfter' = Len(drawn)
                  /\ IF deck = <<>>
                     THEN drawPile' = <<>> /\ current' = current
                     ELSE SameCards(drawPile' \o <<current'>>, deck)
             ELSE /\ refillAfter' = 0 - 1
                  /\ drawPile' = SubSeq(drawPile, 1, Len(drawPile) - 1)
                  /\ current' = drawPile[Len(drawPile)]]_vars

\* The second card of a pass through three different cards was popped
\* without a refill: one card is left.
C13_Witness ==
    /\ op = "nextImage"
    /\ refillAfter = 0 - 1
    /\ Len(deck) = 3
    /\ NoDup(deck)
    /\ Len(drawn) = 2
    /\ Len(drawPile) = 1

\* C14: a selection change handled while ready rebuilds the deck and draws in
\* the same handler.  After it, with a non-empty deck, current is a card of the
\* deck with an effective label, revealed is false and the drawPile has one
\* card less than the deck; with an empty deck there is no current card, the
\* drawPile is empty and revealed is false.
C14_SelectionChangeDraws ==
    (op = "onSelectionChange" /\ ready) =>
        /\ ~revealed
        /\ IF deck # <<>>
           THEN /\ current # Null
                /\ current \in Range(deck)
                /\ current.label \in EffectiveLabels
                /\ Len(drawPile) = Len(deck) - 1
           ELSE /\ current = Null
                /\ drawPile = <<>>

\* One of two classes with an image was selected: the deck was rebuilt from it
\* and its card is on display.
C14_Witness ==
    /\ op = "onSelectionChange"
    /\ ready
    /\ Len(selectedList) = 1
    /\ Cardinality({c \in DOMAIN manifest : Len(manifest[c]) >= 1}) = 2
    /\ Len(deck) = 1
    /\ current = deck[1]

\* C15: once loaded, the manifest is never modified.  Every step other than
\* the one that stores the parsed manifest leaves the manifest as it is: its
\* labels and each label's list, in content and order.
C15_ManifestImmutable ==
    [][~(pc = "manifestJson" /\ pc' = "fetchCredits") => manifest' = manifest]_vars

\* A deck rebuilt from a class of two images holds them in the other order
\* than the manifest, which still lists them as loaded.
C15_Witness ==
    /\ op \in {"onSelectionChange", "reshuffleDeck"}
    /\ Len(deck) = 2
    /\ \E c \in DOMAIN manifest :
         /\ manifest[c] = URLs(c, <<1, 2>>)
         /\ deck[1].url = manifest[c][2]
         /\ deck[2].url = manifest[c][1]

\* C16: a failed credits load is tolerated.  Every step that ends the credits
\* phase of startup sets ready; the step taken when the credits fetch or the
\* parsing of its JSON fails ends startup with ready set, no credit, the deck
\* built and, when the manifest has an image, a card of the deck on display;
\* ready is never reset; and once startup has ended without credits, no credit
\* is loaded later and creditURL and creditHost are none after every step.
C16_CreditsFailureTolerated ==
    [][/\ (pc \in {"fetchCredits", "creditsJson"} /\ pc' \notin {"fetchCredits", "creditsJson"})
            => ready'
       /\ op' = "onMountCatch" =>
            /\ ready' /\ pc' = "done"
            /\ creditsMap' = <<>> /\ creditURL' = Null /\ creditHost' = Null
            /\ Len(drawPile') + Len(drawn') = Len(deck')
            /\ (\E c \in DOMAIN manifest : Len(manifest[c]) >= 1)
                  => (deck' # <<>> /\ current' # Null /\ current' \in Range(deck'))
       /\ ready => ready'
       /\ (pc = "done" /\ creditsMap = <<>>)
            => (creditsMap' = <<>> /\ creditURL' = Null /\ creditHost' = Null)]_vars

\* The credits load failed, startup ended with a deck of two cards and the
\* first of them on display without a credit.
C16_Witness ==
    /\ op = "onMountCatch"
    /\ ready
    /\ pc = "done"
    /\ Len(deck) = 2
    /\ current # Null
    /\ creditURL = Null

\* C17: a failed manifest load is final.  Once the manifest fetch (or the
\* parsing of its JSON) has failed, startup stays failed, and after the failure
\* and after every later step ready is false, the deck and the drawPile are
\* empty, there is no current card and nothing is revealed.
C17_ManifestFailureFatal ==
    [][/\ pc = "failed" => pc' = "failed"
       /\ pc' = "failed" =>
            /\ ~ready'
            /\ deck' = <<>>
            /\ drawPile' = <<>>
            /\ current' = Null
            /\ ~revealed']_vars

\* After the failure the user clicked Shuffle Deck: the rebuild found no
\* class and its nextImage refilled the drawPile from the empty deck.
C17_Witness ==
    /\ pc = "failed"
    /\ op = "reshuffleDeck"
    /\ refillAfter = 0
    /\ deck = <<>>
    /\ current = Null

\* The regular files under a tree, each with its path and content.
RECURSIVE FilesUnder(_)
FilesUnder(t) ==
    UNION { IF t[name].kind = "file" THEN { [path |-> <<name>>, bytes |-> t[name].bytes] }
            ELSE IF t[name].kind = "dir"
                 THEN { [path |-> <<name>> \o f.path, bytes |-> f.bytes] :
                          f \in FilesUnder(t[name].tree) }
                 ELSE {} :
            name \in DOMAIN t }

\* A name in lower case with every whitespace character that follows a
\* whitespace character dropped and the others turned into underscores.
Normalized(name) ==
    LET low == [i \in 1..Len(name) |-> Lower(name[i])]
        F[i \in 0..Len(name)] ==
            IF i = 0 THEN <<>>
            ELSE IF ~IsSpace(low[i]) THEN Append(F[i - 1], low[i])
            ELSE IF i > 1 /\ IsSpace(low[i - 1]) THEN F[i - 1]
            ELSE Append(F[i - 1], "_")
    IN  F[Len(name)]

\* C18: the folder filter.  A top-level entry of the source tree the loop has
\* visited is in the destination, under its own name, if and only if it is a
\* directory whose name, in lower case and with each run of whitespace
\* replaced by one underscore, is in the allow-list; the copy holds exactly the
\* regular files under the directory, at their paths and with their content;
\* nothing else is in the destination.  A directory "Rock Salt" is copied, a
\* directory "Obsidian" is not.
C18_FolderFilter ==
    /\ \A name \in DOMAIN SRC \ itemsLeft :
         IF SRC[name].kind = "dir" /\ Normalized(name) \in ALLOWED
         THEN /\ name \in DOMAIN DEST
              /\ DEST[name].kind = "dir"
              /\ FilesUnder(DEST[name].tree) = FilesUnder(SRC[name].tree)
         ELSE name \notin DOMAIN DEST
    /\ DOMAIN DEST \subseteq DOMAIN SRC \ itemsLeft
    /\ \A name \in DOMAIN SRC \ itemsLeft :
         /\ (name = <<"Rock", " ", "Salt">> /\ SRC[name].kind = "dir") => name \in DOMAIN DEST
         /\ name = <<"Obsidian">> => name \notin DOMAIN DEST

\* The filter has visited a directory "Rock<space><tab>Salt" with files below
\* it and copied it.
C18_Witness ==
    /\ itemsLeft = {}
    /\ \E name \in DOMAIN DEST :
         /\ name = <<"Rock", " ", "\t", "Salt">>
         /\ Cardinality(FilesUnder(DEST[name].tree)) = 2

\* The extension of a name, from its last dot on and in lower case, is one of
\* .jpg, .jpeg, .png, .webp, .gif.
HasImageExtension(name) ==
    \E k \in 1..Len(name) :
        /\ name[k] = "."
        /\ \A j \in (k + 1)..Len(name) : name[j] # "."
        /\ [i \in 1..(Len(name) - k + 1) |-> Lower(name[k + i - 1])] \in IMAGE_EXT

\* The value of the digits of name from position k up to the first non-digit.
RECURSIVE RunValue(_, _, _)
RunValue(name, k, acc) ==
    IF k > Len(name) \/ ~IsDigit(name[k]) THEN acc
    ELSE RunValue(name, k + 1, acc * 10 + DigitValue(name[k]))

\* x and y are the same up to a run of digits that starts at the same place in
\* both, and the run of x has the smaller value.
SmallerNumber(x, y) ==
    \E k \in 1..Min(Len(x), Len(y)) :
        /\ SubSeq(x, 1, k - 1) = SubSeq(y, 1, k - 1)
        /\ (k > 1 => ~IsDigit(x[k - 1]))
        /\ IsDigit(x[k]) /\ IsDigit(y[k])
        /\ RunValue(x, k, 0) < RunValue(y, k, 0)

\* The listing of class directory cls.
ListingOf(cls) == (CHOOSE d \in Range(ROOT) : d.name = cls).list

\* C19: the manifest writer's filter and order.  The manifest has a list for
\* every class directory the loop has visited and for nothing else; the list of
\* a class has one URL for each regular file of the class directory whose
\* extension, letter case ignored, is .jpg, .jpeg, .png, .webp or .gif, and no
\* other; the files are in natural order: no file comes after one it precedes
\* in the numeric-aware comparison, and a file whose number is smaller comes
\* before (img_1, img_2, img_10).
C19_ManifestOrder ==
    /\ DOMAIN data = Range(listDir(ROOT)) \ Range(todo)
    /\ \A cls \in DOMAIN data :
         LET urls   == data[cls]
             images == { d.name : d \in { e \in Range(ListingOf(cls)) :
                                           e.kind = "file" /\ HasImageExtension(e.name) } }
         IN  /\ Len(urls) = Cardinality(images)
             /\ Range(urls) = { ImageURL(encodeURIComponent(cls), encodeURIComponent(f)) :
                                 f \in images }
             /\ \A i, j \in 1..Len(urls) :
                  i < j => /\ naturalSort(urls[i].file, urls[j].file) <= 0
                           /\ ~SmallerNumber(urls[j].file, urls[i].file)
             /\ images = { <<"img", "1", ".", "png">>, <<"img", "2", ".", "png">>,
                           <<"img", "1", "0", ".", "png">> }
                  => urls = [i \in 1..3 |->
                               ImageURL(encodeURIComponent(cls),
                                        << <<"img", "1", ".", "png">>,
                                           <<"img", "2", ".", "png">>,
                                           <<"img", "1", "0", ".", "png">> >>[i])]
    /\ OUT # Null => OUT.json = data

\* The manifest was written for a class directory that lists img2.png,
\* img10.png and img1.png in this order.
C19_Witness ==
    /\ OUT # Null
    /\ \E cls \in DOMAIN data :
         /\ [i \in 1..Len(ListingOf(cls)) |-> ListingOf(cls)[i].name]
              = << <<"img", "2", ".", "png">>, <<"img", "1", "0", ".", "png">>,
                   <<"img", "1", ".", "png">> >>
         /\ \A i \in 1..Len(ListingOf(cls)) : ListingOf(cls)[i].kind = "file"
         /\ Len(data[cls]) = 3
         /\ data[cls][3].file = <<"img", "1", "0", ".", "png">>

\* The one-to-one maps from 1..k to 1..m.
Injections(k, m) == { f \in [1..k -> 1..m] : \A x, y \in 1..k : f[x] = f[y] => x = y }

\* The elements of s at the positions f names, in the order of f.
Pick(s, f) == [t \in DOMAIN f |-> s[f[t]]]

\* C20: the index ranges of the two Fisher-Yates loops and what they reach.
\* Every run of shuffleInPlace on an array of length len makes its swaps at
\* i = len-1, ..., 1, each with a j in 0..i; every run of sampleUpTo makes its
\* swaps at i = 0, ..., k-1, each with a j in i..len-1.  The values
\* shuffleInPlace can return are exactly the permutations of its input, and,
\* for n >= 0, the values sampleUpTo can return are exactly the selections of
\* k = min(n, len) distinct positions in every order.  A call of
\* shuffleInPlace returns the array it was given, and a call of sampleUpTo with
\* n >= 0 a selection of k distinct positions of its array.
C20_FisherYates ==
    LET len == Len(arr)
        k   == Min(n, len)
    IN  /\ phase = "call" =>
             /\ \A r \in ShuffleRuns(arr, len - 1, <<>>) :
                  /\ Len(r.swaps) = Max(len - 1, 0)
                  /\ \A t \in 1..Len(r.swaps) :
                       /\ r.swaps[t].i = len - t
                       /\ r.swaps[t].j \in 0..r.swaps[t].i
             /\ \A r \in SampleRuns(arr, 0, k, <<>>) :
                  /\ Len(r.swaps) = Max(k, 0)
                  /\ \A t \in 1..Len(r.swaps) :
                       /\ r.swaps[t].i = t - 1
                       /\ r.swaps[t].j \in (t - 1)..(len - 1)
             /\ shuffleInPlace(arr) = { Pick(arr, f) : f \in Injections(len, len) }
             /\ n >= 0 => sampleUpTo(arr, n) = { Pick(arr, f) : f \in Injections(k, len) }
        /\ phase = "shuffled" => result = arr
        /\ (phase = "returned" /\ n >= 0) =>
             \E f \in Injections(k, len) : result = Pick(arr, f)

\* shuffleInPlace has turned an array of MaxLen different elements round.
C20_Witness ==
    /\ phase = "shuffled"
    /\ Len(arr) = MaxLen
    /\ \A t \in 1..Len(arr) : arr[t] = Len(arr) + 1 - t

\* C21: Shuffle Deck re-samples the deck from the manifest through the
\* filter.  Right after reshuffleDeck the labels of the deck's cards are exactly
\* the effective labels (so none outside a non-empty selection), every card of
\* the deck is an image the manifest lists under the card's label, the
\* drawPile with the card just drawn is a rearrangement of the deck (an empty
\* deck leaves no card and an empty drawPile), and revealed is false.
C21_ShuffleDeckUsesFilter ==
    op = "reshuffleDeck" =>
        /\ DeckLabels = EffectiveLabels
        /\ (selectedList # <<>> => DeckLabels \subseteq Range(selectedList))
        /\ \A i \in 1..Len(deck) :
             deck[i].url \in Range(ImagesOf(manifest, deck[i].label))
        /\ IF deck # <<>>
           THEN /\ current # Null
                /\ SameCards(drawPile \o <<current>>, deck)
           ELSE /\ current = Null
                /\ drawPile = <<>>
        /\ ~revealed

\* Shuffle Deck was clicked with one of two classes that have an image
\* selected: the deck holds the selected class's card only, and it is on display.
C21_Witness ==
    /\ op = "reshuffleDeck"
    /\ Len(selectedList) = 1
    /\ \E c \in DOMAIN manifest \ Range(selectedList) : Len(manifest[c]) >= 1
    /\ Len(deck) = 1
    /\ current = deck[1]
    /\ drawPile = <<>>

\* C22: the deck and the selection stay in sync.  In every state with ready
\* true, the labels of the deck's cards are exactly the effective labels of the
\* current selectedList.
C22_DeckSelectionInSync ==
    ready => DeckLabels = EffectiveLabels

\* C23: with reveal available only while a card is displayed, in every
\* reachable state revealed implies that there is a current card, and an empty
\* deck implies that there is none.  So no state without a current card has
\* revealed true: every step that clears the current card leaves revealed
\* false.
C23_RevealedNeedsCard ==
    /\ revealed => current # Null
    /\ deck = <<>> => current = Null

\* After startup displayed a card, a selection change to a class without
\* images left the deck empty: the card was cleared and nothing is revealed.
C23_Witness ==
    /\ op = "onSelectionChange"
    /\ ready
    /\ selectedList # <<>>
    /\ \E c \in DOMAIN manifest : Len(manifest[c]) >= 1
    /\ deck = <<>>
    /\ current = Null
    /\ ~revealed

\* C24: the displayed source credit belongs to the displayed card.  In every
\* reachable state creditURL is none or the creditsMap entry for the key of the
\* current card's URL; so it is none whenever there is no current card.
C24_CreditOfCurrent ==
    creditURL # Null =>
        /\ current # Null
        /\ creditURL = CreditFor(Page, current.url)

\* C25: the modal's scroll lock.  Once the component is mounted, after any
\* sequence of the parent opening or closing it, key presses, clicks on the
\* backdrop and its destruction, the page's scrolling is locked exactly when
\* the modal is open (a destroyed modal is not open).  Escape closes only with
\* closeOnEsc, and a click only with closeOnBackdrop and on the backdrop
\* itself; each such close sets open to false and dispatches exactly one close
\* event, and nothing else dispatches one; a key pressed while the modal is
\* closed changes nothing.
C25_ModalScrollLock ==
    LET locked == overflow = "hidden"
        closes == \/ /\ event.name = "keydown"
                     /\ event.arg.key = "Escape"
                     /\ modal.closeOnEsc
                  \/ /\ event.name = "click"
                     /\ event.arg.onBackdrop
                     /\ modal.closeOnBackdrop
    IN  /\ modal.life = "mounted" => (locked <=> modal.open)
        /\ modal.life = "mounted" => (modal.rendered <=> modal.open)
        /\ modal.life = "destroyed" => ~locked
        /\ (event.name \in {"keydown", "click"} /\ event.wasOpen) =>
              IF closes
              THEN ~modal.open /\ dispatched = <<"close">>
              ELSE modal.open /\ dispatched = <<>>
        /\ (event.name = "keydown" /\ ~event.wasOpen) =>
              ~modal.open /\ ~locked /\ dispatched = <<>>
        /\ event.name \notin {"keydown", "click"} =>
              \A i \in 1..Len(dispatched) : dispatched[i] # "close"

\* Escape, pressed inside the open dialog of a modal with closeOnEsc, has
\* closed it: scrolling is unlocked and one close event was dispatched.
C25_Witness ==
    /\ modal.life = "mounted"
    /\ event.name = "keydown"
    /\ event.arg.key = "Escape"
    /\ event.arg.inside
    /\ event.wasOpen
    /\ modal.closeOnEsc
    /\ ~modal.open
    /\ overflow = ""
    /\ dispatched = <<"close">>

====
